---------------------------- MODULE Spec2Model ----------------------------
(***************************************************************************)
(* A model of the reactor server: the epoll event loop with its handler    *)
(* registry (Reactor.cpp), the acceptor and the connection handler         *)
(* (AcceptorHandler.cpp, ConnectionHandler.cpp), the worker pool with the  *)
(* completion inbox (Reactor.hpp, WorkerPool.cpp, TaskQueue.cpp) and the   *)
(* timer wheel (Reactor.cpp).                                              *)
(*                                                                         *)
(* The specifications share the variables:                                 *)
(*   Spec       the event loop serving connections; a worker's run of a    *)
(*              task is one step here;                                     *)
(*   SpecTask   the worker threads and the reactor thread around the       *)
(*              completion inbox, one step per memory access;              *)
(*   SpecTimer  the loop's timeout and the timer wheel under a clock that  *)
(*              advances while callbacks run; the clock counts units of    *)
(*              2^29 ms;                                                   *)
(*   SpecPool   the task queue and the destruction of the worker pool,     *)
(*              one step per lock operation; SpecPoolFair adds the         *)
(*              scheduling of the threads.                                 *)
(***************************************************************************)
EXTENDS Integers, Sequences, FiniteSets, TLC

(***************************************************************************)
(* Bounds of the model.                                                    *)
(***************************************************************************)
MaxClients == 2      \* connections the peers open over a run
MaxTasks == 2        \* tasks submitted over a run of SpecTask or SpecPool
MaxTimers == 2       \* addTimer calls over a run of SpecTimer
MaxDelay == 2        \* largest delay given to addTimer that fits an int
MaxTime == 3         \* the clock stops advancing here
MaxPeerOps == 5      \* connect, send, FIN, RST and failing accept4 over a run

(***************************************************************************)
(* Program constants.                                                      *)
(***************************************************************************)
EventFd == 4         \* eventfd(): the second descriptor the process opens
ListenFd == 5        \* socket(): the third one
WorkerPoolSize == 2  \* workerPool_(2)
MAX_EVENTS == 64     \* size of the batch of epoll_wait

Clients == 1..MaxClients
Workers == 1..WorkerPoolSize
\* the reactor thread, numbered after the workers
ReactorThread == WorkerPoolSize + 1
Tasks == 1..MaxTasks
\* the ids addTimer can hand out within the bound
TimerIds == 0..(MaxTimers - 1)
\* accept4 hands out the lowest free descriptor above the three fixed ones
ClientFds == (ListenFd + 1)..(ListenFd + MaxClients)

\* the byte handleRead looks for in a chunk: "\n"
NL == 10
\* "Async " as bytes
AsyncPrefix == <<65, 115, 121, 110, 99, 32>>
\* the chunks a peer's write arrives in
ChunkSet == {<<97>>, <<98, NL>>}

VARIABLES
    \* ---- Reactor
    handlers_,   \* HandlerMap: fd -> handler object [kind, fd, conn]
    pc,          \* where the reactor thread is: "wait", "dispatch", "hup", "exited"
    events,      \* the batch epoll_wait returned: <<[fd, events]>>
    evi,         \* the index i of the for loop over the batch
    \* ---- kernel
    epollSet,    \* interest list of epollFd_
    readyList,   \* ready list of epollFd_ (edge-triggered)
    fdConn,      \* descriptor table: open client fd -> connection
    acceptQ,     \* accept queue of the listening socket
    cst,         \* connection: "new", "queued", "accepted", "closed"
    rx,          \* connection: chunks received and not yet read
    fin,         \* connection: the peer sent FIN
    rst,         \* connection: the peer sent RST
    nops,        \* events the peers have caused
    \* ---- worker pool and completion inbox
    queue_,      \* TaskQueue::queue_
    completed_,  \* Reactor::completed_
    evCounter,   \* counter of eventFd_
    \* ---- history
    got,         \* connection: every byte recv returned for it
    dupLog,      \* registerHandler calls that found the handle present
    lastRead,    \* how the last ConnectionHandler::handleRead ended
    delivered,   \* connection: the responses send() wrote into it
    removed,     \* history: the connections whose handler removeHandler erased
    anomalies,   \* history: what the loop did to a handler that was gone
    \* ---- the threads around the completion inbox (SpecTask)
    wpc,         \* worker: "pop", "fn", "push", "pushing", "signal"
    wtask,       \* worker: the task it popped
    completedMtx_, \* Reactor::completedMtx_: the set of threads holding it
    raced,       \* threads whose access to completed_ overlapped another's
    q,           \* the local queue of processCompletedTasks
    computed,    \* history: tasks whose taskFn has returned
    runs,        \* history: task -> times its continuation was executed
    nsubmitted,  \* history: tasks submitted so far
    runLog,      \* history: the tasks in the order their continuations ran
    enqLog,      \* history: the tasks in the order completed_.push returned
    signalled,   \* history: the tasks whose worker has written the eventfd
    \* ---- the timer wheel (SpecTimer)
    timers_,     \* TimerMap: expiresAt -> the timers of that deadline, in order
    nextTimerId_, \* Reactor::nextTimerId_
    clock,       \* what steady_clock reads, in ms
    now,         \* processTimers: the local now
    dueTimers,   \* processTimers: the local copy of the due bucket
    duei,        \* processTimers: position of the range-for in dueTimers
    fireLog,     \* history: timer id -> its last two invocations
    returned,    \* history: the ids addTimer has returned, in order
    timeout,     \* eventLoop: the timeout given to epoll_wait
    waitStart,   \* the clock when epoll_wait was called
    waits,       \* history: per timer added with ms = 0 and not yet invoked,
                 \* the epoll_wait calls since addTimer (else -1)
    firedInCall, \* history: the timers invoked in this processTimers call
    firedTwice,  \* history: a timer was invoked twice in one processTimers call
    firedEarly,  \* history: a timer was invoked before its deadline
    \* ---- the worker pool and its task queue (SpecPool)
    lpc,         \* worker: where it is in WorkerPool::loop and TaskQueue::pop
    ltask,       \* worker: the task pop returned
    mtx_,        \* TaskQueue::mtx_: the set of threads holding it
    stop_,       \* WorkerPool::stop_
    opc,         \* the thread that owns the pool: submitting, destroying
    nnoop,       \* ~WorkerPool: no-op tasks pushed so far
    njoined,     \* ~WorkerPool: threads joined so far
    pushLog,     \* history: the tasks in the order push enqueued them
    popLog,      \* history: the tasks in the order pop dequeued them
    popEmpty,    \* history: pop took the front of an empty queue
    atStop       \* history: where the workers were when stop_ was set

connVars == <<handlers_, pc, events, evi, epollSet, readyList, fdConn, acceptQ,
              cst, rx, fin, rst, nops, got, dupLog, lastRead, delivered,
                   removed, anomalies>>
poolVars == <<queue_, completed_, evCounter>>
taskLogs == <<runLog, enqLog, signalled>>
taskVars == <<wpc, wtask, completedMtx_, raced, q, computed, runs, nsubmitted,
              taskLogs>>
timerVars == <<timers_, nextTimerId_, clock, now, dueTimers, duei, fireLog,
               returned, timeout, waitStart, waits, firedInCall, firedTwice,
               firedEarly>>
loopVars == <<lpc, ltask, mtx_, stop_, opc, nnoop, njoined, pushLog, popLog,
              popEmpty, atStop>>
vars == <<connVars, poolVars, taskVars, timerVars, loopVars>>

-----------------------------------------------------------------------------
(***************************************************************************)
(* Helpers.                                                                *)
(***************************************************************************)
Min(S) == CHOOSE x \in S : \A y \in S : x <= y

SeqRemove(s, x) == SelectSeq(s, LAMBDA y : y # x)

InSeq(s, x) == \E k \in 1..Len(s) : s[k] = x

\* the function f without the key k
Erase(f, k) == [x \in DOMAIN f \ {k} |-> f[x]]

\* the function f with f[k] = v
Put(f, k, v) == [x \in DOMAIN f \cup {k} |-> IF x = k THEN v ELSE f[x]]

HasNewline(chunk) == \E k \in 1..Len(chunk) : chunk[k] = NL

-----------------------------------------------------------------------------
(***************************************************************************)
(* The reactor thread's calls are operators on a record w of the state     *)
(* they read and write, so that a handler that calls another composes.    *)
(* w.exited says exit(1) was called: nothing runs after it.                *)
(***************************************************************************)
World ==
    [handlers |-> handlers_, epoll |-> epollSet, ready |-> readyList,
     fdConn |-> fdConn, acceptQ |-> acceptQ, cst |-> cst, rx |-> rx,
     queue |-> queue_, completed |-> completed_, counter |-> evCounter,
     exited |-> FALSE, got |-> got, dupLog |-> dupLog, lastRead |-> lastRead,
     delivered |-> delivered, removed |-> removed]

\* what poll reports for a client socket: data, FIN or RST make it readable,
\* RST sets the error and marks both directions shut down
ConnMask(w, c) ==
    (IF w.rx[c] # <<>> \/ fin[c] \/ rst[c] THEN {"EPOLLIN"} ELSE {})
        \cup (IF rst[c] THEN {"EPOLLERR", "EPOLLHUP"} ELSE {})

\* what poll reports for a descriptor of the interest list
Mask(w, fd) ==
    IF fd = EventFd THEN (IF w.counter > 0 THEN {"EPOLLIN"} ELSE {})
    ELSE IF fd = ListenFd THEN (IF w.acceptQ # <<>> THEN {"EPOLLIN"} ELSE {})
    ELSE IF fd \in DOMAIN w.fdConn THEN ConnMask(w, w.fdConn[fd])
    ELSE {}

\* the kernel queues a descriptor of the interest list on the ready list
MarkReady(w, fd) ==
    IF fd \in w.epoll /\ ~InSeq(w.ready, fd)
    THEN [w EXCEPT !.ready = Append(@, fd)]
    ELSE w

\* close(fd): the descriptor leaves the table and, with it, the epoll set;
\* on a descriptor that is not open it fails with EBADF and changes nothing
CloseFd(w, fd) ==
    IF fd \in DOMAIN w.fdConn
    THEN [w EXCEPT !.fdConn = Erase(@, fd),
                   !.epoll = @ \ {fd},
                   !.ready = SeqRemove(@, fd),
                   !.cst[w.fdConn[fd]] = "closed"]
    ELSE w

\* Reactor::registerEpollEvent: EPOLL_CTL_ADD fails with EEXIST on a member of
\* the interest list and with EBADF on a closed descriptor, and then exit(1);
\* a descriptor that is ready when added is queued at once
RegisterEpollEvent(w, fd) ==
    IF fd \in w.epoll \/ (fd \in ClientFds /\ fd \notin DOMAIN w.fdConn)
    THEN [w EXCEPT !.exited = TRUE]
    ELSE LET w1 == [w EXCEPT !.epoll = @ \cup {fd}]
         IN  IF Mask(w1, fd) # {} THEN MarkReady(w1, fd) ELSE w1

\* the registry after an insert that keeps the entry it finds, a mistake
InsertHandler(registry, fd, handler) ==
    IF fd \in DOMAIN registry THEN registry ELSE Put(registry, fd, handler)

\* registerHandler: handlers_[fd] = handler
SetHandler(registry, fd, handler) == Put(registry, fd, handler)

\* Reactor::registerHandler(handler): handlers_[fd] = handler, then the ADD.
\* Nothing is reported to the caller: the function returns void and throws
\* nothing. dupLog records the calls that found fd present.
RegisterHandler(w, handler) ==
    LET fd == handler.fd
        w1 == [w EXCEPT !.handlers = SetHandler(@, fd, handler)]
        w2 == RegisterEpollEvent(w1, fd)
    IN  IF fd \in DOMAIN w.handlers
        THEN [w2 EXCEPT !.dupLog = @ \cup
                 {[fd |-> fd,
                   surfaced |-> FALSE,
                   entryKept |-> w2.handlers[fd] = w.handlers[fd],
                   subscriptionKept |-> (fd \in w2.epoll) = (fd \in w.epoll),
                   running |-> ~w2.exited]}]
        ELSE w2

\* Reactor::removeHandler(fd): erase, EPOLL_CTL_DEL (exit(1) when it fails:
\* ENOENT for a non-member, EBADF for a closed descriptor), close
RemoveHandler(w, fd) ==
    LET w1 == [w EXCEPT !.handlers = Erase(@, fd),
                        !.removed = IF fd \in DOMAIN w.handlers
                                    THEN @ \cup {w.handlers[fd].conn}
                                    ELSE @]
    IN  IF fd \notin w1.epoll
        THEN [w1 EXCEPT !.exited = TRUE]
        ELSE CloseFd([w1 EXCEPT !.epoll = @ \ {fd},
                                !.ready = SeqRemove(@, fd)], fd)

\* Reactor::submitTask as the connection handler calls it: the task carries
\* the message, the captured fd and self (the handler's connection);
\* sofar is history: all bytes received on the connection so far
ScheduleTask(w, handler, message) ==
    [w EXCEPT !.queue = Append(@, [self |-> handler.conn,
                                   fd |-> handler.fd,
                                   message |-> message,
                                   sofar |-> w.got[handler.conn]])]

\* ConnectionHandler::handleRead: the recv loop; message is the local string
RECURSIVE RecvLoop(_, _, _)
RecvLoop(w, handler, message) ==
    LET fd == handler.fd IN
    IF fd \notin DOMAIN w.fdConn
    THEN \* recv fails with EBADF
         RemoveHandler([w EXCEPT !.lastRead = "error"], fd)
    ELSE LET c == w.fdConn[fd] IN
         IF w.rx[c] # <<>>
         THEN \* n > 0
              LET chunk == Head(w.rx[c])
                  appended == message \o chunk
                  w1 == [w EXCEPT !.rx[c] = Tail(@), !.got[c] = @ \o chunk]
                  w2 == IF HasNewline(chunk)
                        THEN ScheduleTask(w1, handler, appended)
                        ELSE w1
              IN  RecvLoop(w2, handler, appended)
         ELSE IF fin[c]
         THEN \* n == 0: close(fd_); break
              CloseFd([w EXCEPT !.lastRead = "peerclosed"], fd)
         ELSE IF rst[c]
         THEN \* n < 0, ECONNRESET: removeHandler(fd_)
              RemoveHandler([w EXCEPT !.lastRead = "error"], fd)
         ELSE \* n < 0, EAGAIN
              [w EXCEPT !.lastRead = "eagain"]

ConnectionHandleRead(w, handler) == RecvLoop(w, handler, <<>>)

\* AcceptorHandler::handleRead: accept4 until EAGAIN, a ConnectionHandler
\* registered for each descriptor.  The call number failAt of accept4 fails
\* with an error that is not EAGAIN (EMFILE, ENFILE, ENOBUFS, ENOMEM): the
\* connection stays in the listen queue and handleRead returns; failAt = 0
\* when no call fails.
RECURSIVE AcceptLoop(_, _, _)
AcceptLoop(w, failAt, call) ==
    IF w.acceptQ = <<>>
    THEN \* EAGAIN
         w
    ELSE IF call = failAt
    THEN \* perror("accept"); return
         w
    ELSE LET c == Head(w.acceptQ)
             client == Min(ClientFds \ DOMAIN w.fdConn)
             w1 == [w EXCEPT !.acceptQ = Tail(@),
                             !.fdConn = Put(@, client, c),
                             !.cst[c] = "accepted"]
             w2 == RegisterHandler(w1, [kind |-> "conn", fd |-> client, conn |-> c])
         IN  IF w2.exited THEN w2 ELSE AcceptLoop(w2, failAt, call + 1)

AcceptorHandleRead(w, failAt) == AcceptLoop(w, failAt, 1)

\* EventHandler::handleRead, by the dynamic type of the handler
HandleRead(w, handler, failAt) ==
    IF handler.kind = "acceptor"
    THEN AcceptorHandleRead([w EXCEPT !.lastRead = "none"], failAt)
    ELSE ConnectionHandleRead(w, handler)

\* the continuation of scheduleTask: send(fd, response) on the captured fd;
\* the bytes go into whatever connection the descriptor names now, and
\* nowhere (EBADF) when it names none
Continuation(w, task) ==
    IF task.fd \in DOMAIN w.fdConn
    THEN [w EXCEPT !.delivered[w.fdConn[task.fd]] =
              @ \cup {[origin |-> task.self, bytes |-> AsyncPrefix \o task.message]}]
    ELSE w

\* Reactor::processCompletedTasks as the reactor alone sees it: take the
\* inbox, run each closure in order
RECURSIVE RunAll(_, _)
RunAll(w, todo) ==
    IF todo = <<>> THEN w ELSE RunAll(Continuation(w, Head(todo)), Tail(todo))

ProcessCompletedTasks(w) == RunAll([w EXCEPT !.completed = <<>>], w.completed)

\* the variables take the values of w
Commit(w) ==
    /\ handlers_' = w.handlers
    /\ epollSet' = w.epoll
    /\ readyList' = w.ready
    /\ fdConn' = w.fdConn
    /\ acceptQ' = w.acceptQ
    /\ cst' = w.cst
    /\ rx' = w.rx
    /\ queue_' = w.queue
    /\ completed_' = w.completed
    /\ evCounter' = w.counter
    /\ got' = w.got
    /\ dupLog' = w.dupLog
    /\ lastRead' = w.lastRead
    /\ delivered' = w.delivered
    /\ removed' = w.removed

-----------------------------------------------------------------------------
(***************************************************************************)
(* Spec: the event loop serving connections.                               *)
(***************************************************************************)
\* the state when main calls eventLoop: the acceptor is registered, the
\* eventfd is in the epoll set and no peer has connected
Init ==
    /\ handlers_ = (ListenFd :> [kind |-> "acceptor", fd |-> ListenFd, conn |-> 0])
    /\ pc = "wait"
    /\ events = <<>>
    /\ evi = 1
    /\ epollSet = {EventFd, ListenFd}
    /\ readyList = <<>>
    /\ fdConn = <<>>
    /\ acceptQ = <<>>
    /\ cst = [c \in Clients |-> "new"]
    /\ rx = [c \in Clients |-> <<>>]
    /\ fin = [c \in Clients |-> FALSE]
    /\ rst = [c \in Clients |-> FALSE]
    /\ nops = 0
    /\ queue_ = <<>>
    /\ completed_ = <<>>
    /\ evCounter = 0
    /\ got = [c \in Clients |-> <<>>]
    /\ dupLog = {}
    /\ lastRead = "none"
    /\ delivered = [c \in Clients |-> {}]
    /\ removed = {}
    /\ anomalies = {}
    /\ wpc = [w \in Workers |-> "pop"]
    /\ wtask = [w \in Workers |-> 0]
    /\ completedMtx_ = {}
    /\ raced = {}
    /\ q = <<>>
    /\ computed = {}
    /\ runs = [t \in Tasks |-> 0]
    /\ nsubmitted = 0
    /\ timers_ = <<>>
    /\ nextTimerId_ = 0
    /\ clock = 0
    /\ now = 0
    /\ dueTimers = <<>>
    /\ duei = 1
    /\ fireLog = [id \in TimerIds |-> <<>>]
    /\ returned = <<>>
    /\ timeout = -1
    /\ waitStart = 0
    /\ waits = [id \in TimerIds |-> -1]
    /\ firedInCall = {}
    /\ firedTwice = FALSE
    /\ firedEarly = FALSE
    /\ lpc = [w \in Workers |-> "test"]
    /\ ltask = [w \in Workers |-> <<>>]
    /\ mtx_ = {}
    /\ stop_ = FALSE
    /\ opc = "running"
    /\ nnoop = 0
    /\ njoined = 0
    /\ pushLog = <<>>
    /\ popLog = <<>>
    /\ popEmpty = FALSE
    /\ runLog = <<>>
    /\ enqLog = <<>>
    /\ signalled = {}
    /\ atStop = <<>>

\* the ready list after an event on connection c
NotifyConn(c) ==
    IF \E fd \in DOMAIN fdConn : fdConn[fd] = c
    THEN MarkReady(World, CHOOSE fd \in DOMAIN fdConn : fdConn[fd] = c).ready
    ELSE readyList

\* the peers may cause one more event
PeerOp == pc # "exited" /\ nops < MaxPeerOps /\ nops' = nops + 1

Alive(c) == cst[c] \in {"queued", "accepted"}

\* a peer connects: the connection enters the accept queue (the peers are
\* interchangeable, so they connect in the order of their numbers)
Connect(c) ==
    /\ cst[c] = "new"
    /\ \A d \in Clients : d < c => cst[d] # "new"
    /\ PeerOp
    /\ pc # "exited"
    /\ cst' = [cst EXCEPT ![c] = "queued"]
    /\ acceptQ' = Append(acceptQ, c)
    /\ readyList' = MarkReady(World, ListenFd).ready
    /\ UNCHANGED <<handlers_, pc, events, evi, epollSet, fdConn, rx, fin, rst,
                   got, dupLog, lastRead, delivered,
                   removed, anomalies, poolVars>>
    /\ UNCHANGED <<taskVars, timerVars, loopVars>>

\* a peer's write arrives as one chunk
PeerSend(c) ==
    /\ Alive(c)
    /\ PeerOp
    /\ ~fin[c] /\ ~rst[c]
    /\ \E chunk \in ChunkSet : rx' = [rx EXCEPT ![c] = Append(@, chunk)]
    /\ readyList' = NotifyConn(c)
    /\ UNCHANGED <<handlers_, pc, events, evi, epollSet, fdConn, acceptQ, cst,
                   fin, rst, got, dupLog, lastRead, delivered,
                   removed, anomalies, poolVars>>
    /\ UNCHANGED <<taskVars, timerVars, loopVars>>

\* a peer closes its end: FIN
PeerClose(c) ==
    /\ Alive(c)
    /\ PeerOp
    /\ ~fin[c] /\ ~rst[c]
    /\ fin' = [fin EXCEPT ![c] = TRUE]
    /\ readyList' = NotifyConn(c)
    /\ UNCHANGED <<handlers_, pc, events, evi, epollSet, fdConn, acceptQ, cst,
                   rx, rst, got, dupLog, lastRead, delivered,
                   removed, anomalies, poolVars>>
    /\ UNCHANGED <<taskVars, timerVars, loopVars>>

\* a peer aborts the connection: RST
PeerReset(c) ==
    /\ Alive(c)
    /\ PeerOp
    /\ ~rst[c]
    /\ rst' = [rst EXCEPT ![c] = TRUE]
    /\ readyList' = NotifyConn(c)
    /\ UNCHANGED <<handlers_, pc, events, evi, epollSet, fdConn, acceptQ, cst,
                   rx, fin, got, dupLog, lastRead, delivered,
                   removed, anomalies, poolVars>>
    /\ UNCHANGED <<taskVars, timerVars, loopVars>>

\* WorkerPool::loop on a task of submitTask, for the reactor's view in one
\* step: one of the workers has popped the task, computes the result, pushes
\* the closure and writes the eventfd
WorkerRunTask ==
    /\ pc # "exited"
    /\ \E k \in 1..WorkerPoolSize :
          /\ k <= Len(queue_)
          /\ LET task == queue_[k]
                 closure == [self |-> task.self, fd |-> task.fd,
                             message |-> task.message]
             IN  /\ queue_' = SubSeq(queue_, 1, k - 1) \o SubSeq(queue_, k + 1, Len(queue_))
                 /\ completed_' = Append(completed_, closure)
    /\ evCounter' = evCounter + 1
    /\ readyList' = MarkReady(World, EventFd).ready
    /\ UNCHANGED <<handlers_, pc, events, evi, epollSet, fdConn, acceptQ, cst,
                   rx, fin, rst, nops, got, dupLog, lastRead, delivered,
                   removed, anomalies>>
    /\ UNCHANGED <<taskVars, timerVars, loopVars>>

\* eventLoop: epoll_wait returns the ready descriptors, each with what poll
\* reports for it now; a descriptor with nothing to report is dropped
EpollWait ==
    /\ pc = "wait"
    /\ readyList # <<>>
    /\ LET live == SelectSeq(readyList, LAMBDA fd : Mask(World, fd) # {})
           n == IF Len(live) < MAX_EVENTS THEN Len(live) ELSE MAX_EVENTS
       IN  /\ events' = [k \in 1..n |-> [fd |-> live[k], events |-> Mask(World, live[k])]]
           /\ readyList' = SubSeq(live, n + 1, Len(live))
           /\ pc' = IF n = 0 THEN "wait" ELSE "dispatch"
    /\ evi' = 1
    /\ UNCHANGED <<handlers_, epollSet, fdConn, acceptQ, cst, rx, fin, rst, nops,
                   got, dupLog, lastRead, delivered,
                   removed, anomalies, poolVars>>
    /\ UNCHANGED <<taskVars, timerVars, loopVars>>

\* the for loop moves to the next event, or the batch is done
NextEvent ==
    /\ evi' = evi + 1
    /\ pc' = IF evi + 1 > Len(events) THEN "wait" ELSE "dispatch"

\* the calls of accept4 that can fail in a handleRead of this handler
FailChoices(w, handler) ==
    IF handler.kind = "acceptor" /\ nops < MaxPeerOps
    THEN 0..Len(w.acceptQ)
    ELSE {0}

\* what the dispatch of handleRead to this handler for fd did wrong: the
\* handler is one removeHandler erased, or it is not the handler of the
\* connection that fd names now
ReadAnomalies(w, fd, handler) ==
    IF handler.kind # "conn" THEN {}
    ELSE (IF handler.conn \in w.removed THEN {"removed"} ELSE {})
            \cup (IF fd \in DOMAIN w.fdConn /\ w.fdConn[fd] # handler.conn
                  THEN {"stale"} ELSE {})

\* eventLoop, the body of the for loop up to handleRead
Dispatch ==
    /\ pc = "dispatch"
    /\ LET ev == events[evi]
           fd == ev.fd
           w1 == IF fd = EventFd
                 THEN ProcessCompletedTasks([World EXCEPT !.counter = 0])
                 ELSE World
       IN  IF fd \notin DOMAIN w1.handlers
           THEN \* continue
                Commit(w1) /\ NextEvent /\ UNCHANGED <<nops, anomalies>>
           ELSE IF "EPOLLIN" \notin ev.events
           THEN /\ Commit(w1)
                /\ pc' = "hup"
                /\ evi' = evi
                /\ UNCHANGED <<nops, anomalies>>
           ELSE \E failAt \in FailChoices(w1, w1.handlers[fd]) :
                   LET w2 == HandleRead(w1, w1.handlers[fd], failAt)
                   IN  /\ Commit(w2)
                       /\ pc' = IF w2.exited THEN "exited" ELSE "hup"
                       /\ evi' = evi
                       /\ nops' = IF failAt > 0 THEN nops + 1 ELSE nops
                       /\ anomalies' = anomalies \cup
                              ReadAnomalies(w1, fd, w1.handlers[fd])
    /\ UNCHANGED <<events, fin, rst>>
    /\ UNCHANGED <<taskVars, timerVars, loopVars>>

\* eventLoop, the rest of the body: EPOLLOUT is never subscribed, so
\* handleWrite is not called; on EPOLLHUP or EPOLLERR removeHandler(fd),
\* whether or not handleRead has removed the handler
HupErr ==
    /\ pc = "hup"
    /\ LET ev == events[evi]
           hupErr == ev.events \cap {"EPOLLHUP", "EPOLLERR"} # {}
           w1 == IF hupErr THEN RemoveHandler(World, ev.fd) ELSE World
       IN  /\ Commit(w1)
           /\ anomalies' = IF hupErr /\ ev.fd \notin DOMAIN handlers_
                           THEN anomalies \cup {"later step"}
                           ELSE anomalies
           /\ IF w1.exited
              THEN pc' = "exited" /\ evi' = evi
              ELSE NextEvent
    /\ UNCHANGED <<events, fin, rst, nops>>
    /\ UNCHANGED <<taskVars, timerVars, loopVars>>

Next ==
    \/ \E c \in Clients : Connect(c)
    \/ \E c \in Clients : PeerSend(c)
    \/ \E c \in Clients : PeerClose(c)
    \/ \E c \in Clients : PeerReset(c)
    \/ WorkerRunTask
    \/ EpollWait
    \/ Dispatch
    \/ HupErr

Spec == Init /\ [][Next]_vars

-----------------------------------------------------------------------------
(***************************************************************************)
(* Claims about the registry, the connections and the responses (Spec).    *)
(***************************************************************************)

\* C3: registerHandler called with a handle that is already a key of the
\* registry fails with an error surfaced to the caller, leaves the registry
\* entry and the readiness subscription of that handle unchanged, and the
\* reactor keeps running.
C3_DuplicateRegisterFails ==
    \A r \in dupLog :
        r.surfaced /\ r.entryKept /\ r.subscriptionKept /\ r.running

\* C4: no sequence of connection-level events (peer close, recv error,
\* EPOLLHUP/EPOLLERR) makes the reactor terminate the process.
C4_NeverExits == pc # "exited"

\* C5: between handler callbacks a handle is a key of the registry if and
\* only if it is subscribed in the epoll set, the eventfd excepted.
C5_RegistryIffSubscribed ==
    pc # "exited" =>
        \A fd \in ClientFds \cup {ListenFd} :
            (fd \in DOMAIN handlers_) <=> (fd \in epollSet)

\* C6: when ConnectionHandler::handleRead has seen recv return 0 and
\* returns, the handle is no longer a key of the registry and it is closed.
C6_PeerCloseUnregisters ==
    (pc = "hup" /\ lastRead = "peerclosed") =>
        /\ events[evi].fd \notin DOMAIN handlers_
        /\ events[evi].fd \notin DOMAIN fdConn

\* C7: a response is written only into the connection that sent the line:
\* every response a connection was sent was produced for that connection.
C7_ResponseOnlyToOrigin ==
    \A c \in Clients : \A r \in delivered[c] : r.origin = c

\* C8: whenever a chunk with a newline is received, the message of the
\* submitted task is all the bytes received on that connection so far, however
\* the bytes were split across chunks and across handleRead invocations.
C8_MessageIsAllBytesSoFar ==
    \A k \in 1..Len(queue_) : queue_[k].message = queue_[k].sofar


\* C16, as claimed: once removeHandler(h) has run, no handleRead is
\* dispatched to the handler that was registered for h, and no later step of
\* the processing of the same event is made for h.
C16_RemovedHandlerSkipped ==
    /\ "removed" \notin anomalies
    /\ "later step" \notin anomalies

\* C19, as claimed, for the runs that end: when the loop blocks in epoll_wait
\* with nothing on the ready list, no connection is left in the listen queue,
\* and the acceptor is registered as long as the process runs.
C19_QueuedConnectionsAccepted ==
    /\ (pc = "wait" /\ readyList = <<>>) => acceptQ = <<>>
    /\ pc # "exited" => (ListenFd \in DOMAIN handlers_ /\ ListenFd \in epollSet)

\* C20: when accept4 returns a descriptor number that a closed connection
\* used, the registration goes through, the registry maps the number to the
\* new handler, and no handleRead for the number goes to the old handler.
C20_ReuseMapsToNewHandler ==
    /\ "stale" \notin anomalies
    /\ \A e \in dupLog : e.running /\ ~e.entryKept
    /\ \A fd \in DOMAIN fdConn :
          fd \in DOMAIN handlers_ /\ handlers_[fd].conn = fdConn[fd]

\* a descriptor number whose registry entry outlived its connection names a
\* new connection, and bytes of the new connection have been read
C20_Witness ==
    \E e \in dupLog :
        /\ e.fd \in DOMAIN fdConn
        /\ got[fdConn[e.fd]] # <<>>
        /\ pc = "wait"

-----------------------------------------------------------------------------
(***************************************************************************)
(* SpecTask: the worker threads and the reactor thread around the          *)
(* completion inbox, one step per access to shared memory.  A task is      *)
(* named by its number.                                                    *)
(***************************************************************************)
\* the variables the steps of SpecTask leave alone
idleConn == <<handlers_, events, evi, epollSet, fdConn, acceptQ, cst, rx, fin,
              rst, nops, got, dupLog, lastRead, delivered, removed,
              anomalies, timerVars, loopVars>>

\* the threads that are inside an access to completed_: a worker between the
\* start and the end of completed_.push, the reactor between taking the lock
\* and the end of std::swap
Accessing ==
    {w \in Workers : wpc[w] = "pushing"}
        \cup (IF pc = "swap" THEN {ReactorThread} ELSE {})

\* a thread enters an access: it races with every thread already inside
Enter(th) == IF Accessing = {} THEN raced ELSE raced \cup Accessing \cup {th}

\* Reactor::submitTask, called on the reactor thread by a handler or by a
\* continuation that processCompletedTasks runs: the task is built and
\* WorkerPool::submit pushes it onto the TaskQueue
SubmitTask ==
    /\ \/ pc = "wait"
       \/ pc = "run" /\ q # <<>>
    /\ nsubmitted < MaxTasks
    /\ nsubmitted' = nsubmitted + 1
    /\ queue_' = Append(queue_, nsubmitted + 1)
    /\ UNCHANGED <<pc, readyList, completed_, evCounter, wpc, wtask,
                   completedMtx_, raced, q, computed, runs, taskLogs,
                   idleConn>>

\* WorkerPool::loop: Task t = queue_.pop()
WorkerPop(w) ==
    /\ pc # "crashed"
    /\ wpc[w] = "pop"
    /\ queue_ # <<>>
    /\ wtask' = [wtask EXCEPT ![w] = Head(queue_)]
    /\ queue_' = Tail(queue_)
    /\ wpc' = [wpc EXCEPT ![w] = "fn"]
    /\ UNCHANGED <<pc, readyList, completed_, evCounter, completedMtx_, raced,
                   q, computed, runs, nsubmitted, taskLogs,
                   idleConn>>

\* task.fn: auto result = taskFn()
WorkerCompute(w) ==
    /\ pc # "crashed"
    /\ wpc[w] = "fn"
    /\ computed' = computed \cup {wtask[w]}
    /\ wpc' = [wpc EXCEPT ![w] = "push"]
    /\ UNCHANGED <<pc, readyList, queue_, completed_, evCounter, wtask,
                   completedMtx_, raced, q, runs, nsubmitted, taskLogs,
                   idleConn>>

\* task.fn: completed_.push(...) begins; the worker takes no lock
WorkerPushBegin(w) ==
    /\ pc # "crashed"
    /\ wpc[w] = "push"
    /\ raced' = Enter(w)
    /\ wpc' = [wpc EXCEPT ![w] = "pushing"]
    /\ UNCHANGED <<pc, readyList, queue_, completed_, evCounter, wtask,
                   completedMtx_, q, computed, runs, nsubmitted, taskLogs,
                   idleConn>>

\* what an access that overlapped another one can do to the queue: the data
\* race is undefined behaviour, and the builds differ in its outcome
RaceOutcomes == {"done", "lost", "crash"}

\* task.fn: completed_.push(...) ends. Alone in the queue, the closure is
\* appended; after a race it is appended, or lost, or the process crashes
WorkerPushEnd(w) ==
    /\ pc # "crashed"
    /\ wpc[w] = "pushing"
    /\ \E outcome \in (IF w \in raced THEN RaceOutcomes ELSE {"done"}) :
          /\ completed_' = IF outcome = "done"
                           THEN Append(completed_, wtask[w])
                           ELSE completed_
          /\ pc' = IF outcome = "crash" THEN "crashed" ELSE pc
    /\ raced' = raced \ {w}
    /\ enqLog' = Append(enqLog, wtask[w])
    /\ wpc' = [wpc EXCEPT ![w] = "signal"]
    /\ UNCHANGED <<readyList, queue_, evCounter, wtask, completedMtx_, q,
                   computed, runs, nsubmitted, runLog, signalled,
                   idleConn>>

\* task.fn: write(eventFd_, &one, sizeof(one)); then the loop pops again
WorkerSignal(w) ==
    /\ pc # "crashed"
    /\ wpc[w] = "signal"
    /\ evCounter' = evCounter + 1
    /\ signalled' = signalled \cup {wtask[w]}
    /\ readyList' = MarkReady(World, EventFd).ready
    /\ wpc' = [wpc EXCEPT ![w] = "pop"]
    /\ wtask' = [wtask EXCEPT ![w] = 0]
    /\ UNCHANGED <<pc, queue_, completed_, completedMtx_, raced, q, computed,
                   runs, nsubmitted, runLog,
                   enqLog, idleConn>>

\* eventLoop: epoll_wait returns the eventfd, if its counter is not zero
TaskEpollWait ==
    /\ pc = "wait"
    /\ InSeq(readyList, EventFd)
    /\ readyList' = SeqRemove(readyList, EventFd)
    /\ pc' = IF evCounter > 0 THEN "read" ELSE "wait"
    /\ UNCHANGED <<queue_, completed_, evCounter, taskVars, idleConn>>

\* eventLoop: read(eventFd_, &val, sizeof(val)) resets the counter
TaskRead ==
    /\ pc = "read"
    /\ evCounter' = 0
    /\ pc' = "lock"
    /\ UNCHANGED <<readyList, queue_, completed_, taskVars, idleConn>>

\* processCompletedTasks: lock_guard takes completedMtx_; std::swap begins
TaskLock ==
    /\ pc = "lock"
    /\ completedMtx_ = {}
    /\ completedMtx_' = {ReactorThread}
    /\ raced' = Enter(ReactorThread)
    /\ pc' = "swap"
    /\ UNCHANGED <<readyList, queue_, completed_, evCounter, wpc, wtask, q,
                   computed, runs, nsubmitted, taskLogs,
                   idleConn>>

\* processCompletedTasks: std::swap(q, completed_) ends and the lock is
\* released; after a race the swap is done or the process crashes
TaskSwap ==
    /\ pc = "swap"
    /\ \E outcome \in (IF ReactorThread \in raced THEN {"done", "crash"} ELSE {"done"}) :
          pc' = IF outcome = "crash" THEN "crashed" ELSE "run"
    /\ q' = completed_
    /\ completed_' = <<>>
    /\ completedMtx_' = {}
    /\ raced' = raced \ {ReactorThread}
    /\ UNCHANGED <<readyList, queue_, evCounter, wpc, wtask, computed, runs,
                   nsubmitted, taskLogs,
                   idleConn>>

\* processCompletedTasks: q.front()(); q.pop(), until q is empty
TaskRun ==
    /\ pc = "run"
    /\ IF q = <<>>
       THEN /\ pc' = "wait"
            /\ UNCHANGED <<q, runs, runLog>>
       ELSE /\ runs' = [runs EXCEPT ![Head(q)] = @ + 1]
            /\ q' = Tail(q)
            /\ runLog' = Append(runLog, Head(q))
            /\ pc' = pc
    /\ UNCHANGED <<readyList, queue_, completed_, evCounter, wpc, wtask,
                   completedMtx_, raced, computed, nsubmitted, enqLog,
                   signalled, idleConn>>

NextTask ==
    \/ SubmitTask
    \/ \E w \in Workers : WorkerPop(w)
    \/ \E w \in Workers : WorkerCompute(w)
    \/ \E w \in Workers : WorkerPushBegin(w)
    \/ \E w \in Workers : WorkerPushEnd(w)
    \/ \E w \in Workers : WorkerSignal(w)
    \/ TaskEpollWait
    \/ TaskRead
    \/ TaskLock
    \/ TaskSwap
    \/ TaskRun

SpecTask == Init /\ [][NextTask]_vars

(***************************************************************************)
(* Claims about tasks and the completion inbox (SpecTask).                 *)
(***************************************************************************)
\* nothing is in flight: every worker waits in pop, the queues are empty and
\* the reactor waits in epoll_wait with no wake-up pending
Quiescent ==
    /\ pc = "wait"
    /\ \A w \in Workers : wpc[w] = "pop"
    /\ queue_ = <<>> /\ completed_ = <<>> /\ q = <<>>
    /\ ~InSeq(readyList, EventFd)

\* C1: the continuation of every submitted task is executed by the reactor
\* thread exactly once and only after the task's compute function returned:
\* never twice, never before the compute, and once nothing is in flight any
\* more, once.
C1_ContinuationExactlyOnce ==
    \A t \in 1..nsubmitted :
        /\ runs[t] <= 1
        /\ runs[t] >= 1 => t \in computed
        /\ Quiescent => runs[t] = 1

\* C2: every access to the completion inbox is made holding completedMtx_,
\* so no two threads are inside the inbox at the same time.
C2_InboxGuardedByMutex ==
    /\ \A th \in Accessing : th \in completedMtx_
    /\ Cardinality(Accessing) <= 1

\* C14, as claimed: processCompletedTasks runs no continuation while it
\* holds completedMtx_, and the continuations run in the order in which they
\* were enqueued: what has run, then what was swapped out, then what is in
\* the inbox (completions enqueued during the drain wait there for a later
\* drain) make up, in this order, all the completions enqueued so far.
C14_DrainOutsideMutex ==
    /\ pc = "run" => ReactorThread \notin completedMtx_
    /\ runLog \o q \o completed_ = enqLog

\* C15, as claimed: the reactor never blocks in epoll_wait with no eventfd
\* signal pending while the inbox holds a closure whose signal has been
\* written, and once nothing is in flight any more every enqueued closure has
\* been executed.
C15_NoLostWakeup ==
    /\ (pc = "wait" /\ ~InSeq(readyList, EventFd)) =>
          \A k \in 1..Len(completed_) : completed_[k] \notin signalled
    /\ Quiescent => \A k \in 1..Len(enqLog) : runs[enqLog[k]] >= 1

-----------------------------------------------------------------------------
(***************************************************************************)
(* SpecTimer: the timer wheel.  The clock advances between any two steps,  *)
(* so a callback, or anything else the loop does, can take time.           *)
(***************************************************************************)
\* the variables the steps of SpecTimer leave alone
idleTimer == <<handlers_, events, evi, epollSet, readyList, fdConn, acceptQ,
               cst, rx, fin, rst, nops, got, dupLog, lastRead, delivered,
               removed, anomalies, poolVars, taskVars, loopVars>>

\* Reactor::nowMs
nowMs == clock

\* timers_[key].push_back(t)
PushTimer(wheel, key, t) ==
    IF key \in DOMAIN wheel
    THEN [wheel EXCEPT ![key] = Append(@, t)]
    ELSE Put(wheel, key, <<t>>)

\* the id after the one handed out, a mistake: the counter is not advanced
SameId(id) == id

\* addTimer: nextTimerId_ ++
NextId(id) == id + 1

\* the deadline of a re-armed timer, a mistake: counted from the old deadline
RearmFromDeadline(t, captured) == t.expiresAt + t.interval

\* processTimers: t.expiresAt = now + t.interval
RearmAt(t, captured) == captured + t.interval

\* 2^32 ms in units of the clock: the clock counts units of 2^29 ms, so
\* that an int holds the multiples of the unit from -4 to 3
IntWrap == 8

\* a uint64_t narrowed to int
ToInt(x) == IF x % IntWrap >= IntWrap \div 2 THEN (x % IntWrap) - IntWrap ELSE x % IntWrap

\* 2^31 ms, the least delay that does not fit an int
WideDelay == IntWrap \div 2

\* the delays given to addTimer
Delays == (0..MaxDelay) \cup {WideDelay}

\* Reactor::computeNextTimerTimeout
computeNextTimerTimeout ==
    IF DOMAIN timers_ = {}
    THEN -1
    ELSE IF Min(DOMAIN timers_) > nowMs
         THEN ToInt(Min(DOMAIN timers_) - nowMs)
         ELSE 0

\* time passes
Tick ==
    /\ pc \in {"wait", "epoll", "timers", "callback"}
    /\ clock < MaxTime
    /\ clock' = clock + 1
    /\ UNCHANGED <<pc, timers_, nextTimerId_, now, dueTimers, duei, fireLog,
                   returned, timeout, waitStart, waits, firedInCall, firedTwice,
                   firedEarly, idleTimer>>

\* Reactor::addTimer(ms, recurring, cb), called by main before the loop or by
\* a callback on the reactor thread
AddTimer ==
    /\ pc \in {"wait", "callback"}
    /\ nextTimerId_ < MaxTimers
    /\ \E ms \in Delays, recurring \in BOOLEAN :
          LET t == [id |-> nextTimerId_,
                    expiresAt |-> nowMs + ms,
                    interval |-> IF recurring THEN ms ELSE 0]
          IN  /\ timers_' = PushTimer(timers_, t.expiresAt, t)
              /\ returned' = Append(returned, t.id)
              /\ waits' = [waits EXCEPT ![t.id] = IF ms = 0 THEN 0 ELSE -1]
    /\ nextTimerId_' = NextId(nextTimerId_)
    /\ UNCHANGED <<pc, clock, now, dueTimers, duei, fireLog, timeout, waitStart,
                   firedInCall, firedTwice, firedEarly,
                   idleTimer>>

\* eventLoop: timeout = computeNextTimerTimeout(), and epoll_wait is called
LoopTimeout ==
    /\ pc = "wait"
    /\ timeout' = computeNextTimerTimeout
    /\ waitStart' = clock
    /\ waits' = [id \in TimerIds |->
                    IF waits[id] < 0 THEN -1 ELSE Min({waits[id] + 1, 2})]
    /\ pc' = "epoll"
    /\ UNCHANGED <<timers_, nextTimerId_, clock, now, dueTimers, duei, fireLog,
                   returned, firedInCall, firedTwice, firedEarly,
                   idleTimer>>

\* epoll_wait returns n < 0: perror, continue
EpollWaitError ==
    /\ pc = "epoll"
    /\ pc' = "wait"
    /\ timeout' = -1
    /\ waitStart' = 0
    /\ UNCHANGED <<timers_, nextTimerId_, clock, now, dueTimers, duei, fireLog,
                   returned, waits, firedInCall, firedTwice, firedEarly,
                   idleTimer>>

\* epoll_wait returns n >= 0, with events at any moment, with none when the
\* timeout has passed (a negative timeout never passes); after the for loop
\* eventLoop calls processTimers: uint64_t now = nowMs().  The timeout is not
\* read again.
TimerStart ==
    /\ pc = "epoll"
    /\ \E n \in {0, 1} :
          n = 0 => (timeout >= 0 /\ clock >= waitStart + timeout)
    /\ now' = nowMs
    /\ pc' = "timers"
    /\ timeout' = -1
    /\ waitStart' = 0
    /\ UNCHANGED <<timers_, nextTimerId_, clock, dueTimers, duei, fireLog,
                   returned, waits, firedInCall, firedTwice, firedEarly,
                   idleTimer>>

\* processTimers, the head of the while loop: leave when the wheel is empty
\* or its first deadline is after now, else copy the first bucket and erase it
TimerLoop ==
    /\ pc = "timers"
    /\ IF DOMAIN timers_ = {} \/ Min(DOMAIN timers_) > now
       THEN /\ pc' = "wait"
            /\ firedInCall' = {}
            /\ UNCHANGED <<timers_, dueTimers, duei>>
       ELSE LET first == Min(DOMAIN timers_)
            IN  /\ dueTimers' = timers_[first]
                /\ timers_' = Erase(timers_, first)
                /\ duei' = 1
                /\ pc' = "callback"
                /\ UNCHANGED firedInCall
    /\ UNCHANGED <<nextTimerId_, clock, now, fireLog, returned, timeout,
                   waitStart, waits, firedTwice, firedEarly, idleTimer>>

\* the last two entries of a log with one more entry
Latest(log, e) == IF Len(log) < 2 THEN Append(log, e) ELSE <<log[2], e>>

\* processTimers, the body of the range-for: t.callback(), then a recurring
\* timer goes back into the wheel; after the last timer, the while loop again
TimerCallback ==
    /\ pc = "callback"
    /\ LET t == dueTimers[duei]
           rearmed == [t EXCEPT !.expiresAt = RearmAt(t, now)]
       IN  /\ fireLog' = [fireLog EXCEPT ![t.id] =
                  Latest(@, [at |-> clock, captured |-> now, interval |-> t.interval])]
           /\ timers_' = IF t.interval > 0
                         THEN PushTimer(timers_, rearmed.expiresAt, rearmed)
                         ELSE timers_
           /\ waits' = [waits EXCEPT ![t.id] = -1]
           /\ firedTwice' = (firedTwice \/ t.id \in firedInCall)
           /\ firedEarly' = (firedEarly \/ t.expiresAt > now)
           /\ firedInCall' = firedInCall \cup {t.id}
    /\ duei' = duei + 1
    /\ pc' = IF duei + 1 > Len(dueTimers) THEN "timers" ELSE "callback"
    /\ UNCHANGED <<nextTimerId_, clock, now, dueTimers, returned, timeout,
                   waitStart, idleTimer>>

NextTimer ==
    \/ Tick
    \/ AddTimer
    \/ LoopTimeout
    \/ EpollWaitError
    \/ TimerStart
    \/ TimerLoop
    \/ TimerCallback

SpecTimer == Init /\ [][NextTimer]_vars

(***************************************************************************)
(* Claims about timers (SpecTimer).                                        *)
(***************************************************************************)
\* the entries of the wheel, each with its place
WheelEntries ==
    {e \in (DOMAIN timers_) \X (1..MaxTimers) : e[2] <= Len(timers_[e[1]])}

\* C9, as claimed: two successive invocations of a recurring timer's callback
\* are at least interval ms apart by the clock read when the callback is
\* called.
C9_GapByClockAtCall ==
    \A id \in TimerIds :
        (Len(fireLog[id]) = 2 /\ fireLog[id][2].interval > 0) =>
            fireLog[id][2].at >= fireLog[id][1].at + fireLog[id][2].interval

\* C9, amended: two successive invocations of a recurring timer's callback
\* are at least interval ms apart by the now that processTimers captured at
\* the start of the call that made the invocation.
C9_GapByCapturedNow ==
    \A id \in TimerIds :
        (Len(fireLog[id]) = 2 /\ fireLog[id][2].interval > 0) =>
            fireLog[id][2].captured >= fireLog[id][1].captured + fireLog[id][2].interval

\* a recurring timer has been invoked twice, the second time after the clock
\* moved on during the call of processTimers
C9_Witness ==
    \E id \in TimerIds :
        /\ Len(fireLog[id]) = 2
        /\ fireLog[id][2].interval > 0
        /\ fireLog[id][2].at > fireLog[id][2].captured

\* C10: every addTimer call returns an id greater than all ids returned
\* before, and no two entries of the wheel carry the same id.
C10_TimerIdsUnique ==
    /\ \A i, j \in 1..Len(returned) : i < j => returned[i] < returned[j]
    /\ \A e, f \in WheelEntries :
          timers_[e[1]][e[2]].id = timers_[f[1]][f[2]].id => e = f

\* two timers are in the wheel, one of them re-armed after an invocation
C10_Witness ==
    /\ Len(returned) >= 2
    /\ Cardinality(WheelEntries) >= 2
    /\ \E e \in WheelEntries : fireLog[timers_[e[1]][e[2]].id] # <<>>

C17_NoCatchUpStorm == ~firedTwice /\ ~firedEarly

\* processTimers has returned after it invoked a recurring timer that was two
\* intervals late or more, and the timer is back in the wheel
C17_Witness ==
    /\ pc = "wait"
    /\ \E e \in WheelEntries :
          LET id == timers_[e[1]][e[2]].id
          IN  /\ Len(fireLog[id]) = 2
              /\ fireLog[id][2].interval > 0
              /\ fireLog[id][2].captured >=
                     fireLog[id][1].captured + 2 * fireLog[id][2].interval

\* C18, as claimed: the timeout given to epoll_wait is -1 exactly when the
\* wheel is empty, and else it is max(0, earliest deadline - now) and not
\* negative, for every delay addTimer accepts.
C18_TimeoutIsClampedDistance ==
    pc = "epoll" =>
        /\ (timeout = -1) <=> (DOMAIN timers_ = {})
        /\ DOMAIN timers_ # {} =>
              /\ timeout >= 0
              /\ timeout = IF Min(DOMAIN timers_) > waitStart
                           THEN Min(DOMAIN timers_) - waitStart
                           ELSE 0

-----------------------------------------------------------------------------
(***************************************************************************)
(* SpecPool: the worker pool and its task queue, one step per lock         *)
(* operation.  The thread that owns the pool (the reactor thread) submits  *)
(* tasks and, at some moment, destroys the pool.  A task is the pair of    *)
(* its kind and its number.                                                *)
(***************************************************************************)
\* the variables the steps of SpecPool leave alone
idlePool == <<connVars, completed_, evCounter, taskVars, timerVars>>

\* ~WorkerPool pushes one no-op task fewer than there are threads, a mistake
OneNoopLess == WorkerPoolSize - 1

\* ~WorkerPool: for (i = 0; i < threads_.size(); i++) push a no-op task
NoopsToPush == WorkerPoolSize

\* where pop goes on after a wake-up, a mistake: the front is taken without
\* looking at the queue again
TakeAfterWake == "take"

\* TaskQueue::pop: cv_.wait(lock, pred) tests pred again after every wake-up
AfterWake == "recheck"

\* the workers that wait on cv_
Waiters == {w \in Workers : lpc[w] = "waiting"}

\* the task the owner's push call is about
Pushed ==
    IF opc = "submit"
    THEN <<"task", nsubmitted + 1>>
    ELSE <<"noop", nnoop + 1>>

\* the owner calls WorkerPool::submit: TaskQueue::push takes mtx_
OwnerLockSubmit ==
    /\ opc = "running"
    /\ nsubmitted < MaxTasks
    /\ mtx_ = {}
    /\ mtx_' = {ReactorThread}
    /\ opc' = "submit"
    /\ UNCHANGED <<queue_, lpc, ltask, stop_, nnoop, njoined, pushLog, popLog,
                   popEmpty, atStop, idlePool>>

\* ~WorkerPool: stop_ = true
OwnerStop ==
    /\ opc = "running"
    /\ stop_' = TRUE
    /\ atStop' = [lpcs |-> lpc, queued |-> Len(queue_)]
    /\ opc' = "stopping"
    /\ UNCHANGED <<queue_, lpc, ltask, mtx_, nnoop, njoined, pushLog, popLog,
                   popEmpty, idlePool>>

\* ~WorkerPool calls queue_.push(Task{[]{}}): TaskQueue::push takes mtx_
OwnerLockNoop ==
    /\ opc = "stopping"
    /\ mtx_ = {}
    /\ mtx_' = {ReactorThread}
    /\ opc' = "noop"
    /\ UNCHANGED <<queue_, lpc, ltask, stop_, nnoop, njoined, pushLog, popLog,
                   popEmpty, atStop, idlePool>>

\* TaskQueue::push under the lock: queue_.push, cv_.notify_one (one of the
\* waiters wakes, if there is one), and the lock is released
OwnerPush ==
    /\ opc \in {"submit", "noop"}
    /\ queue_' = Append(queue_, Pushed)
    /\ pushLog' = Append(pushLog, Pushed)
    /\ IF Waiters = {}
       THEN lpc' = lpc
       ELSE \E w \in Waiters : lpc' = [lpc EXCEPT ![w] = "woken"]
    /\ mtx_' = {}
    /\ IF opc = "submit"
       THEN /\ nsubmitted' = nsubmitted + 1
            /\ opc' = "running"
            /\ UNCHANGED nnoop
       ELSE /\ nnoop' = nnoop + 1
            /\ opc' = IF nnoop + 1 >= NoopsToPush THEN "joining" ELSE "stopping"
            /\ UNCHANGED nsubmitted
    /\ UNCHANGED <<ltask, stop_, njoined, popLog, popEmpty, atStop, connVars,
                   completed_, evCounter, wpc, wtask, completedMtx_, raced, q,
                   computed, runs, taskLogs, timerVars>>

\* ~WorkerPool: t.join() for the threads in order; join returns when the
\* thread has left loop
OwnerJoin ==
    /\ opc = "joining"
    /\ lpc[njoined + 1] = "done"
    /\ njoined' = njoined + 1
    /\ opc' = IF njoined + 1 = WorkerPoolSize THEN "joined" ELSE "joining"
    /\ UNCHANGED <<queue_, lpc, ltask, mtx_, stop_, nnoop, pushLog, popLog,
                   popEmpty, atStop, idlePool>>

\* WorkerPool::loop: while (!stop_)
WorkerTest(w) ==
    /\ lpc[w] = "test"
    /\ lpc' = [lpc EXCEPT ![w] = IF stop_ THEN "done" ELSE "lock"]
    /\ UNCHANGED <<queue_, ltask, mtx_, stop_, opc, nnoop, njoined, pushLog,
                   popLog, popEmpty, atStop, idlePool>>

\* TaskQueue::pop: unique_lock takes mtx_
WorkerLock(w) ==
    /\ lpc[w] = "lock"
    /\ mtx_ = {}
    /\ mtx_' = {w}
    /\ lpc' = [lpc EXCEPT ![w] = "check"]
    /\ UNCHANGED <<queue_, ltask, stop_, opc, nnoop, njoined, pushLog, popLog,
                   popEmpty, atStop, idlePool>>

\* TaskQueue::pop, cv_.wait(lock, pred): with the queue empty the lock is
\* released and the thread waits, else the wait is over
WorkerCheck(w) ==
    /\ lpc[w] \in {"check", "recheck"}
    /\ IF queue_ = <<>>
       THEN /\ mtx_' = {}
            /\ lpc' = [lpc EXCEPT ![w] = "waiting"]
       ELSE /\ mtx_' = mtx_
            /\ lpc' = [lpc EXCEPT ![w] = "take"]
    /\ UNCHANGED <<queue_, ltask, stop_, opc, nnoop, njoined, pushLog, popLog,
                   popEmpty, atStop, idlePool>>

\* a waiting thread wakes without a notify
SpuriousWake(w) ==
    /\ lpc[w] = "waiting"
    /\ lpc' = [lpc EXCEPT ![w] = "woken"]
    /\ UNCHANGED <<queue_, ltask, mtx_, stop_, opc, nnoop, njoined, pushLog,
                   popLog, popEmpty, atStop, idlePool>>

\* TaskQueue::pop, cv_.wait: a woken thread takes the lock again
WorkerRelock(w) ==
    /\ lpc[w] = "woken"
    /\ mtx_ = {}
    /\ mtx_' = {w}
    /\ lpc' = [lpc EXCEPT ![w] = AfterWake]
    /\ UNCHANGED <<queue_, ltask, stop_, opc, nnoop, njoined, pushLog, popLog,
                   popEmpty, atStop, idlePool>>

\* TaskQueue::pop: t = queue_.front(); queue_.pop(); the lock is released.
\* The front of an empty queue is not a task.
WorkerTake(w) ==
    /\ lpc[w] = "take"
    /\ IF queue_ = <<>>
       THEN /\ popEmpty' = TRUE
            /\ ltask' = [ltask EXCEPT ![w] = <<"none", 0>>]
            /\ UNCHANGED <<queue_, popLog>>
       ELSE /\ ltask' = [ltask EXCEPT ![w] = Head(queue_)]
            /\ popLog' = Append(popLog, Head(queue_))
            /\ queue_' = Tail(queue_)
            /\ UNCHANGED popEmpty
    /\ mtx_' = {}
    /\ lpc' = [lpc EXCEPT ![w] = "fn"]
    /\ UNCHANGED <<stop_, opc, nnoop, njoined, pushLog, atStop, idlePool>>

\* WorkerPool::loop: t.fn()
WorkerFn(w) ==
    /\ lpc[w] = "fn"
    /\ ltask' = [ltask EXCEPT ![w] = <<>>]
    /\ lpc' = [lpc EXCEPT ![w] = "test"]
    /\ UNCHANGED <<queue_, mtx_, stop_, opc, nnoop, njoined, pushLog, popLog,
                   popEmpty, atStop, idlePool>>

NextPool ==
    \/ OwnerLockSubmit
    \/ OwnerStop
    \/ OwnerLockNoop
    \/ OwnerPush
    \/ OwnerJoin
    \/ \E w \in Workers : WorkerTest(w)
    \/ \E w \in Workers : WorkerLock(w)
    \/ \E w \in Workers : WorkerCheck(w)
    \/ \E w \in Workers : SpuriousWake(w)
    \/ \E w \in Workers : WorkerRelock(w)
    \/ \E w \in Workers : WorkerTake(w)
    \/ \E w \in Workers : WorkerFn(w)

SpecPool == Init /\ [][NextPool]_vars

\* every thread that can take a step takes one in the end, and a thread that
\* asks for the mutex gets it; nothing obliges the owner to submit or to
\* destroy, and nothing obliges a waiting thread to wake on its own
PoolFairness ==
    /\ \A w \in Workers :
          /\ WF_vars(WorkerTest(w))
          /\ SF_vars(WorkerLock(w))
          /\ WF_vars(WorkerCheck(w))
          /\ SF_vars(WorkerRelock(w))
          /\ WF_vars(WorkerTake(w))
          /\ WF_vars(WorkerFn(w))
    /\ SF_vars(OwnerLockNoop)
    /\ WF_vars(OwnerPush)
    /\ WF_vars(OwnerJoin)

SpecPoolFair == SpecPool /\ PoolFairness

(***************************************************************************)
(* Claims about the pool and its queue (SpecPool, SpecPoolFair).           *)
(***************************************************************************)
\* C11: once ~WorkerPool has set stop_, every worker leaves its loop and
\* every join returns, whatever the workers were doing and however many
\* tasks were queued.
C11_DestructionTerminates == stop_ ~> (opc = "joined")

\* the destructor has returned after it found a worker running a task, a
\* worker inside pop and a task still queued
C11_Witness ==
    /\ opc = "joined"
    /\ atStop.queued >= 1
    /\ \E w \in Workers : atStop.lpcs[w] = "fn"
    /\ \E w \in Workers : atStop.lpcs[w] \in {"lock", "check", "waiting", "woken", "recheck"}

\* s is a prefix of u
IsPrefix(s, u) == Len(s) <= Len(u) /\ \A k \in 1..Len(s) : s[k] = u[k]

\* C13: pop never takes from an empty queue, spurious wake-ups included, a
\* pushed task is returned by at most one pop, and the tasks are dequeued in
\* the order in which push enqueued them.
C13_FifoExactlyOnce ==
    /\ ~popEmpty
    /\ IsPrefix(popLog, pushLog)
    /\ \A i, j \in 1..Len(popLog) : popLog[i] = popLog[j] => i = j

\* two tasks have been popped, and a worker that was woken holds the lock
\* and finds the queue empty
C13_Witness ==
    /\ Len(popLog) >= 2
    /\ queue_ = <<>>
    /\ \E w \in Workers : lpc[w] = "recheck"

=============================================================================
